---- MODULE Spec2Model ----
(***************************************************************************)
(* Model of buying_rule_simulator.py: the SYSPRO buying-rule simulator.    *)
(*                                                                         *)
(* The program is a Streamlit script.  Every change of a sidebar widget    *)
(* reruns the script from top to bottom, so the state is the value of the  *)
(* widgets together with the module-level globals the last run left        *)
(* behind (weekly_demand, rules, combined_data), and there is one action   *)
(* per widget: it stores the new value and performs the whole rerun.       *)
(*                                                                         *)
(* The widgets lead_time_days and qty_per_ac are read by no computation    *)
(* (they are only written to the exported parameter sheet) and the         *)
(* "Description" column is the static text of rule_definitions; they are   *)
(* left out.                                                               *)
(*                                                                         *)
(* Numbers.  Quantities are Python ints.  math.ceil(a / b) is a float      *)
(* division followed by a ceiling; for the magnitudes a widget can hold    *)
(* (|a| < 2^53) the correctly rounded quotient never crosses an integer,   *)
(* so it is modelled exactly by PyCeilDiv.  time_per_po is a float on the  *)
(* widget's 0.1 grid and is held in tenths of an hour; money is            *)
(* accordingly held in tenths of a dollar until int() truncates it.        *)
(***************************************************************************)
EXTENDS Integers, Sequences, FiniteSets, TLC

VARIABLES
    ebq,                  \* st.sidebar.number_input(... EBQ), line 35
    pan_qty,              \* line 36
    fixed_time_days,      \* line 37
    start_shortage_date,  \* line 38, a date [year, month, day]
    yearly_ac_demand,     \* line 39
    time_per_po,          \* line 41, in tenths of an hour
    weekly_demand,        \* global, line 52
    rules,                \* global, lines 65-83
    combined_data,        \* global, lines 89-128
    raised                \* "" or the exception that ended the run

vars == <<ebq, pan_qty, fixed_time_days, start_shortage_date, yearly_ac_demand,
          time_per_po, weekly_demand, rules, combined_data, raised>>

-----------------------------------------------------------------------------
(* Bounds of the model and the values the widgets are driven with.         *)

\* The batch sizes tried are MinEbq..MaxEbq and MinPan..MaxPan, and the defaults.
MaxEbq == 3
MaxPan == 3

\* Widget minima (min_value=...).
MinEbq == 1
MinPan == 1
MinFixedTime == 5
MinYearly == 1
MinTimePerPo == 1

YearlyChoices == {1, 52, 53, 100, 260}
FixedTimeChoices == {5, 9, 20}
TimePerPoChoices == {1, 5}

Date(y, m, d) == [year |-> y, month |-> m, day |-> d]

\* The values of datetime.date.
DateRecords == [year : Nat, month : 1..12, day : 1..31]

\* date_input offers value +/- 10 years; these dates make the schedule cross
\* a year end in both directions and a 29 February.
DateChoices ==
    { Date(2026, 3, 20), Date(2026, 1, 10), Date(2027, 12, 31), Date(2028, 2, 20) }

-----------------------------------------------------------------------------
(* Constants of the script.                                                *)

delivery_buffer == 15
buyer_rate == 35
part_price == 50

RuleOrder ==
    << "A", "B", "C", "D", "E", "F", "G", "H", "I", "J", "K", "L", "M", "N",
       "O", "P", "Q" >>

RuleCodes == { RuleOrder[i] : i \in 1..Len(RuleOrder) }

-----------------------------------------------------------------------------
(* Arithmetic.                                                             *)

\* a / b raises ZeroDivisionError when b is 0.
ZeroDivision(b) == b = 0

PyCeilDiv_Floor(a, b) == IF b = 0 THEN 0 ELSE a \div b

\* math.ceil(a / b) for b > 0: the quotient, plus one when a remainder is left.
PyCeilDiv(a, b) ==
    IF b = 0 THEN 0
    ELSE IF a % b = 0 THEN a \div b ELSE (a \div b) + 1

PyMax(a, b) == IF a >= b THEN a ELSE b

-----------------------------------------------------------------------------
(* datetime.date arithmetic and formatting.                                *)

IsLeap(y) == y % 4 = 0 /\ (y % 100 # 0 \/ y % 400 = 0)

\* _DAYS_IN_MONTH and _DAYS_BEFORE_MONTH, the tables of a non-leap year
DAYS_IN_MONTH == << 31, 28, 31, 30, 31, 30, 31, 31, 30, 31, 30, 31 >>

DAYS_BEFORE_MONTH == << 0, 31, 59, 90, 120, 151, 181, 212, 243, 273, 304, 334 >>

DaysInMonth(y, m) ==
    IF m = 2 /\ IsLeap(y) THEN 29 ELSE DAYS_IN_MONTH[m]

DaysBeforeYear(y) ==
    (y - 1) * 365 + ((y - 1) \div 4) - ((y - 1) \div 100) + ((y - 1) \div 400)

DaysBeforeMonth(y, m) ==
    DAYS_BEFORE_MONTH[m] + (IF m > 2 /\ IsLeap(y) THEN 1 ELSE 0)

\* date.toordinal()
ymd2ord[dt \in DateRecords] ==
    DaysBeforeYear(dt.year) + DaysBeforeMonth(dt.year, dt.month) + dt.day

\* The month and day of the n-th day (from 0) of a year: month = (n + 50) >> 5
\* is an estimate that is exact or one too large.
month_day(y, leapyear, n) ==
    LET month     == (n + 50) \div 32
        extra(m)  == IF m > 2 /\ leapyear THEN 1 ELSE 0
        preceding == DAYS_BEFORE_MONTH[month] + extra(month)
    IN  IF preceding > n
        THEN Date(y, month - 1,
                  n - (DAYS_BEFORE_MONTH[month - 1] + extra(month - 1)) + 1)
        ELSE Date(y, month, n - preceding + 1)

\* date.fromordinal(): the 400/100/4/1-year cycle decomposition of CPython.
ord2ymd[ordinal \in Nat] ==
    LET n0   == ordinal - 1
        n400 == n0 \div 146097
        r400 == n0 % 146097
        n100 == r400 \div 36524
        r100 == r400 % 36524
        n4   == r100 \div 1461
        r4   == r100 % 1461
        n1   == r4 \div 365
        y    == n400 * 400 + 1 + n100 * 100 + n4 * 4 + n1
    IN  IF n1 = 4 \/ n100 = 4
        THEN Date(y - 1, 12, 31)
        ELSE month_day(y, n1 = 3 /\ (n4 # 24 \/ n100 = 3), r4 % 365)

\* date - timedelta(days=k), date + timedelta(days=k)
AddDays(dt, k) == ord2ymd[ymd2ord[dt] + k]

Pad2(n) == IF n < 10 THEN "0" \o ToString(n) ELSE ToString(n)

Pad3(n) == IF n < 10 THEN "00" \o ToString(n)
           ELSE IF n < 100 THEN "0" \o ToString(n) ELSE ToString(n)

\* strftime('%Y-%m-%d'), years 1000..9999
strftime[dt \in DateRecords] ==
    ToString(dt.year) \o "-" \o Pad2(dt.month) \o "-" \o Pad2(dt.day)

\* format(n, ",") for n >= 0
RECURSIVE Commas(_)
Commas(n) ==
    IF n < 1000 THEN ToString(n)
    ELSE Commas(n \div 1000) \o "," \o Pad3(n % 1000)

\* f"${int(x):,}" for x >= 0 held in tenths of a dollar
Dollars(x10) == "$" \o Commas(x10 \div 10)

\* f"{int(qty)} pcs"
Pcs(qty) == ToString(qty) \o " pcs"

-----------------------------------------------------------------------------
(* The script, lines 52-128.  p is the record of the widget values.       *)

\* line 52: weekly_demand = math.ceil(yearly_ac_demand / 52)
derive_weekly_demand_Floor(yearly) == yearly \div 52

derive_weekly_demand(yearly) == PyCeilDiv(yearly, 52)

\* line 80 without the max(0, ...) clamp
rule_O_NoClamp(w, e, pn) == e + PyCeilDiv(w * 2 + 3 - e, pn) * pn

\* line 80
rule_O(w, e, pn) == e + PyCeilDiv(PyMax(0, w * 2 + 3 - e), pn) * pn

\* lines 65-83: the dict literal, keyed by rule code.
build_rules(w, e, pn, ft) ==
    [ r \in RuleCodes |->
        CASE r = "A" -> w
          [] r = "B" -> e
          [] r = "C" -> (ft \div 5) * w
          [] r = "D" -> 100 + w
          [] r = "E" -> 200 - 12
          [] r = "F" -> pn
          [] r = "G" -> PyCeilDiv(w * 2 + 1, e) * e
          [] r = "H" -> PyCeilDiv(w * 2 + 1, pn) * pn
          [] r = "I" -> PyMax(e, w)
          [] r = "J" -> PyMax(pn, w)
          [] r = "K" -> e
          [] r = "L" -> pn
          [] r = "M" -> PyCeilDiv(w * 2 + 1, e) * e
          [] r = "N" -> PyCeilDiv(w * 2 + 1, pn) * pn
          [] r = "O" -> rule_O(w, e, pn)
          [] r = "P" -> 0
          [] r = "Q" -> 0 ]

\* The divisions of lines 72-80 raise when a batch size is 0.
rules_raise(e, pn) == ZeroDivision(e) \/ ZeroDivision(pn)

\* lines 55-62 with range(2)
get_po_schedule_Two(start_date, buffer, qty) ==
    LET Line(shortage_date) == strftime[AddDays(shortage_date, 0 - buffer)]
                                 \o " → " \o Pcs(qty)
        s1 == start_date
        s2 == AddDays(s1, 4 * 7)
    IN  Line(s1) \o "\n" \o Line(s2)

\* lines 55-62: three passes of the loop body, then "\n".join(rows)
get_po_schedule(start_date, buffer, qty) ==
    LET Line(shortage_date) == strftime[AddDays(shortage_date, 0 - buffer)]
                                 \o " → " \o Pcs(qty)
        s1 == start_date
        s2 == AddDays(s1, 4 * 7)
        s3 == AddDays(s2, 4 * 7)
    IN  Line(s1) \o "\n" \o Line(s2) \o "\n" \o Line(s3)

\* line 91: if qty <= 0
skips_ordering_Negative(qty) == qty < 0

skips_ordering(qty) == qty <= 0

\* lines 92-102 with the label of line 115
zero_row_ShortLabel(rule) ==
    [ Rule |-> rule, ExampleOrderQty |-> 0, POsPerYear |-> 0, POSchedule |-> "-",
      HoldingCost |-> "$0", BuyerCost |-> "$0", TotalCost |-> "$0",
      Notes |-> "No auto ordering" ]

\* lines 92-102
zero_row(rule) ==
    [ Rule |-> rule, ExampleOrderQty |-> 0, POsPerYear |-> 0, POSchedule |-> "-",
      HoldingCost |-> "$0", BuyerCost |-> "$0", TotalCost |-> "$0",
      Notes |-> "No auto ordering (manual)" ]

\* lines 113-116 with D and E added to the first list
notes_AllBalanced(rule) ==
    IF rule \in {"B","C","D","E","F","G","H","I","J","K","L","M","N","O"} THEN "Balanced"
    ELSE IF rule = "A" THEN "High PO load"
    ELSE IF rule \in {"P","Q"} THEN "No auto ordering"
    ELSE "High inventory"

\* lines 113-116
notes(rule) ==
    IF rule \in {"B","C","F","G","H","I","J","K","L","M","N","O"} THEN "Balanced"
    ELSE IF rule = "A" THEN "High PO load"
    ELSE IF rule \in {"P","Q"} THEN "No auto ordering"
    ELSE "High inventory"

\* line 105 taking 52 * weekly_demand
annual_demand_Weekly(p) == 52 * derive_weekly_demand(p.yearly_ac_demand)

\* line 105: annual_demand = yearly_ac_demand
annual_demand(p) == p.yearly_ac_demand

\* line 86: cost_per_po = buyer_rate * time_per_po, in tenths of a dollar
cost_per_po(p) == buyer_rate * p.time_per_po

\* lines 105-128: the row of a rule that orders.
full_row(p, rule, qty) ==
    LET orders_per_year == PyCeilDiv(annual_demand(p), qty)
        avg_inventory   == qty * 5                  \* qty / 2, in tenths
        holding_cost    == avg_inventory * part_price
        buyer_cost      == orders_per_year * cost_per_po(p)
        total_cost      == holding_cost + buyer_cost
    IN  [ Rule |-> rule,
          ExampleOrderQty |-> Pcs(qty),
          POsPerYear |-> orders_per_year,
          POSchedule |-> get_po_schedule(p.start_shortage_date, delivery_buffer, qty),
          HoldingCost |-> Dollars(holding_cost),
          BuyerCost |-> Dollars(buyer_cost),
          TotalCost |-> Dollars(total_cost),
          Notes |-> notes(rule) ]

\* lines 91-128 dropping the rows of the rules that do not order
loop_body_DropZero(p, data, rule, qty) ==
    IF skips_ordering(qty)
    THEN [ raised |-> "", data |-> data ]
    ELSE IF ZeroDivision(qty)
    THEN [ raised |-> "ZeroDivisionError", data |-> data ]
    ELSE [ raised |-> "", data |-> Append(data, full_row(p, rule, qty)) ]

\* lines 91-128: one pass of the loop over rules.items()
loop_body(p, data, rule, qty) ==
    IF skips_ordering(qty)
    THEN [ raised |-> "", data |-> Append(data, zero_row(rule)) ]
    ELSE IF ZeroDivision(qty)                       \* line 106
    THEN [ raised |-> "ZeroDivisionError", data |-> data ]
    ELSE [ raised |-> "", data |-> Append(data, full_row(p, rule, qty)) ]

\* lines 89-128: the loop, in the dict's insertion order; an exception ends it.
RECURSIVE build_combined_data(_, _, _, _)
build_combined_data(p, rl, data, i) ==
    IF i > Len(RuleOrder)
    THEN [ raised |-> "", data |-> data ]
    ELSE LET step == loop_body(p, data, RuleOrder[i], rl[RuleOrder[i]])
         IN  IF step.raised # ""
             THEN step
             ELSE build_combined_data(p, rl, step.data, i + 1)

\* One run of the script on the widget values p.
run_script(p) ==
    LET w == derive_weekly_demand(p.yearly_ac_demand)
    IN  IF rules_raise(p.ebq, p.pan_qty)
        THEN [ weekly_demand |-> w, rules |-> [ r \in {} |-> 0 ],
               combined_data |-> << >>, raised |-> "ZeroDivisionError" ]
        ELSE LET rl  == build_rules(w, p.ebq, p.pan_qty, p.fixed_time_days)
                 out == build_combined_data(p, rl, << >>, 1)
             IN  [ weekly_demand |-> w, rules |-> rl,
                   combined_data |-> out.data, raised |-> out.raised ]

-----------------------------------------------------------------------------
(* State machine.                                                          *)

Widgets ==
    [ ebq |-> ebq, pan_qty |-> pan_qty, fixed_time_days |-> fixed_time_days,
      start_shortage_date |-> start_shortage_date,
      yearly_ac_demand |-> yearly_ac_demand, time_per_po |-> time_per_po ]

\* The widget values become p and the script runs on them.
Rerun(p) ==
    \E q \in {p} : \E out \in {run_script(q)} :
        /\ ebq' = q.ebq
        /\ pan_qty' = q.pan_qty
        /\ fixed_time_days' = q.fixed_time_days
        /\ start_shortage_date' = q.start_shortage_date
        /\ yearly_ac_demand' = q.yearly_ac_demand
        /\ time_per_po' = q.time_per_po
        /\ weekly_demand' = out.weekly_demand
        /\ rules' = out.rules
        /\ combined_data' = out.combined_data
        /\ raised' = out.raised

\* lines 34-41: the widgets' default values
Defaults ==
    [ ebq |-> 10, pan_qty |-> 10, fixed_time_days |-> 20,
      start_shortage_date |-> Date(2026, 3, 20),
      yearly_ac_demand |-> 100, time_per_po |-> 5 ]

\* The first run of the script.
Init ==
    LET out == run_script(Defaults)
    IN  /\ ebq = Defaults.ebq
        /\ pan_qty = Defaults.pan_qty
        /\ fixed_time_days = Defaults.fixed_time_days
        /\ start_shortage_date = Defaults.start_shortage_date
        /\ yearly_ac_demand = Defaults.yearly_ac_demand
        /\ time_per_po = Defaults.time_per_po
        /\ weekly_demand = out.weekly_demand
        /\ rules = out.rules
        /\ combined_data = out.combined_data
        /\ raised = out.raised

SetEbq ==
    \E v \in (MinEbq..MaxEbq) \cup {Defaults.ebq} : Rerun([Widgets EXCEPT !.ebq = v])

SetPanQty ==
    \E v \in (MinPan..MaxPan) \cup {Defaults.pan_qty} : Rerun([Widgets EXCEPT !.pan_qty = v])

SetFixedTimeDays ==
    \E v \in { x \in FixedTimeChoices : x >= MinFixedTime } :
        Rerun([Widgets EXCEPT !.fixed_time_days = v])

SetStartShortageDate ==
    \E v \in DateChoices : Rerun([Widgets EXCEPT !.start_shortage_date = v])

SetYearlyDemand ==
    \E v \in { x \in YearlyChoices : x >= MinYearly } :
        Rerun([Widgets EXCEPT !.yearly_ac_demand = v])

SetTimePerPo ==
    \E v \in { x \in TimePerPoChoices : x >= MinTimePerPo } :
        Rerun([Widgets EXCEPT !.time_per_po = v])

Next ==
    \/ SetEbq
    \/ SetPanQty
    \/ SetFixedTimeDays
    \/ SetStartShortageDate
    \/ SetYearlyDemand
    \/ SetTimePerPo

Spec == Init /\ [][Next]_vars

-----------------------------------------------------------------------------
(* Vocabulary of the properties.                                           *)

\* Integer ceiling division, floor((a + b - 1) / b), for b > 0.
CeilingDivision(a, b) == (a + b - 1) \div b

Greater(a, b) == IF a >= b THEN a ELSE b

Catalog ==
    << "A", "B", "C", "D", "E", "F", "G", "H", "I", "J", "K", "L", "M", "N",
       "O", "P", "Q" >>

\* The run ended normally with one row per catalog entry.
CompletePass == raised = "" /\ Len(combined_data) = 17

\* A calendar date of the Gregorian calendar.
ValidDate(dt) ==
    /\ dt.year >= 1
    /\ dt.month \in 1..12
    /\ dt.day >= 1
    /\ dt.day <= (IF dt.month = 2
                  THEN (IF dt.year % 4 = 0 /\ (dt.year % 100 # 0 \/ dt.year % 400 = 0)
                        THEN 29 ELSE 28)
                  ELSE IF dt.month \in {4, 6, 9, 11} THEN 30 ELSE 31)

\* The row of the terminal "no auto ordering" state.
TerminalRow(code) ==
    [ Rule |-> code, ExampleOrderQty |-> 0, POsPerYear |-> 0, POSchedule |-> "-",
      HoldingCost |-> "$0", BuyerCost |-> "$0", TotalCost |-> "$0",
      Notes |-> "No auto ordering (manual)" ]

\* A row is on the terminal path when it carries the terminal label.
OnTerminalPath(row) == row.Notes = "No auto ordering (manual)"

-----------------------------------------------------------------------------
(* C1: every evaluation pass produces exactly 17 rows, one per catalog     *)
(* code, none repeated or missing, in the order A, B, ..., Q; the rows of  *)
(* the zero-quantity rules are among them, at their catalog position.      *)
C1_SeventeenRowsInCatalogOrder ==
    /\ raised = ""
    /\ Len(combined_data) = 17
    /\ \A i \in 1..17 : combined_data[i].Rule = Catalog[i]
    /\ \A i, j \in 1..17 : i # j => combined_data[i].Rule # combined_data[j].Rule

\* A pass on edited widgets whose rules P and Q ordered nothing and still
\* hold rows 16 and 17.
C1_Witness ==
    /\ ebq = 1
    /\ yearly_ac_demand = 260
    /\ Len(combined_data) = 17
    /\ rules["P"] = 0
    /\ rules["Q"] = 0
    /\ combined_data[16].Rule = "P"
    /\ combined_data[17].Rule = "Q"
    /\ combined_data[15].Rule = "O"

-----------------------------------------------------------------------------
(* C2: with W the weekly demand, every rule's order quantity equals its    *)
(* catalog formula, ceilings being the integer ceiling division            *)
(* floor((a + b - 1) / b), and every quantity is a non-negative integer.   *)
C2_QuantitiesMatchCatalog ==
    LET W   == weekly_demand
        EBQ == ebq
        PAN == pan_qty
        FT  == fixed_time_days
    IN  /\ raised = ""
        /\ DOMAIN rules = { Catalog[i] : i \in 1..17 }
        /\ rules["A"] = W
        /\ rules["B"] = EBQ
        /\ rules["C"] = (FT \div 5) * W
        /\ rules["D"] = 100 + W
        /\ rules["E"] = 188
        /\ rules["F"] = PAN
        /\ rules["G"] = CeilingDivision(2 * W + 1, EBQ) * EBQ
        /\ rules["M"] = CeilingDivision(2 * W + 1, EBQ) * EBQ
        /\ rules["H"] = CeilingDivision(2 * W + 1, PAN) * PAN
        /\ rules["N"] = CeilingDivision(2 * W + 1, PAN) * PAN
        /\ rules["I"] = Greater(EBQ, W)
        /\ rules["J"] = Greater(PAN, W)
        /\ rules["K"] = EBQ
        /\ rules["L"] = PAN
        /\ rules["O"] = EBQ + CeilingDivision(Greater(0, 2 * W + 3 - EBQ), PAN) * PAN
        /\ rules["P"] = 0
        /\ rules["Q"] = 0
        /\ \A r \in DOMAIN rules : rules[r] \in Nat

\* Lot rounding that rounds up (11 to 12 for both lot sizes, the remainder
\* 10 of rule O to pan multiples) and a fixed time of one business week.
C2_Witness ==
    /\ weekly_demand = 5
    /\ ebq = 3
    /\ pan_qty = 2
    /\ fixed_time_days = 9
    /\ rules["G"] = 12
    /\ rules["H"] = 12
    /\ rules["O"] = 13
    /\ rules["C"] = 5

-----------------------------------------------------------------------------
(* C3: every rule with order quantity Q > 0 has a PO schedule of exactly   *)
(* 3 entries; entry i = 0, 1, 2 is dated first_shortage_date + 28 i days   *)
(* - delivery_buffer days in calendar arithmetic and carries Q.            *)
C3_ThreePoDatesEveryFourWeeks ==
    /\ CompletePass
    /\ \A i \in 1..Len(combined_data) :
        LET row == combined_data[i]
            Q   == rules[row.Rule]
            D0  == ymd2ord[start_shortage_date]
            po(k) == ord2ymd[D0 + 28 * k - delivery_buffer]
            entry(k) == strftime[po(k)] \o " → " \o ToString(Q) \o " pcs"
        IN  Q > 0 =>
              /\ \A k \in 0..2 :
                    /\ ValidDate(po(k))
                    /\ ymd2ord[po(k)] = D0 + 28 * k - delivery_buffer
              /\ row.POSchedule = entry(0) \o "\n" \o entry(1) \o "\n" \o entry(2)

\* A schedule that crosses 29 February 2028.
C3_Witness ==
    /\ start_shortage_date = Date(2028, 2, 20)
    /\ Len(combined_data) = 17
    /\ rules["B"] = 3
    /\ combined_data[2].POSchedule
         = "2028-02-05 → 3 pcs\n2028-03-04 → 3 pcs\n2028-04-01 → 3 pcs"

-----------------------------------------------------------------------------
(* C4: whatever the other parameters, the rows of rules P and Q have       *)
(* order quantity 0, no PO schedule, zero orders per year, zero holding,   *)
(* buyer and total cost and the notes "No auto ordering (manual)", and     *)
(* are produced as normal rows, not as errors.                             *)
C4_SuppressedRulesGetTerminalRow ==
    /\ CompletePass
    /\ rules["P"] = 0
    /\ rules["Q"] = 0
    /\ combined_data[16] = TerminalRow("P")
    /\ combined_data[17] = TerminalRow("Q")

\* Terminal rows after the parameters were moved away from the defaults.
C4_Witness ==
    /\ ebq = 2
    /\ pan_qty = 3
    /\ yearly_ac_demand = 53
    /\ time_per_po = 1
    /\ Len(combined_data) = 17
    /\ combined_data[16].POSchedule = "-"
    /\ combined_data[17].TotalCost = "$0"

-----------------------------------------------------------------------------
\* The cost columns of the rows of the rules that order, from the widgets.
OrderingRowsCosts ==
    /\ CompletePass
    /\ \A i \in 1..Len(combined_data) :
        LET row   == combined_data[i]
            Q     == rules[row.Rule]
            opy   == CeilingDivision(yearly_ac_demand, Q)
            whole(num, den) == "$" \o Commas(num \div den)
        IN  Q > 0 =>
              /\ row.POsPerYear = opy
              /\ row.HoldingCost = whole(Q * part_price, 2)
              /\ row.BuyerCost = whole(opy * buyer_rate * time_per_po, 10)
              /\ row.TotalCost
                   = whole(5 * Q * part_price + opy * buyer_rate * time_per_po, 10)

CostColumns ==
    [ i \in 1..Len(combined_data) |->
        << combined_data[i].POsPerYear, combined_data[i].HoldingCost,
           combined_data[i].BuyerCost, combined_data[i].TotalCost >> ]

OnlyTheDateChanges ==
    /\ start_shortage_date' # start_shortage_date
    /\ UNCHANGED << ebq, pan_qty, fixed_time_days, yearly_ac_demand, time_per_po >>

(* C5: for every rule with Q > 0, orders_per_year = ceil(yearly_demand /   *)
(* Q) on the yearly-demand input itself, holding cost = (Q / 2) *          *)
(* part_price, buyer cost = orders_per_year * (buyer_rate * time_per_po),  *)
(* total = holding + buyer cost, the amounts being shown as whole          *)
(* dollars; and a change of the first shortage date alone changes none of  *)
(* the four.  (time_per_po is in tenths of an hour.)                       *)
C5_CostsFromYearlyDemandNotDates ==
    /\ []OrderingRowsCosts
    /\ [][OnlyTheDateChanges => CostColumns' = CostColumns]_vars

\* Yearly demand 100 is not 52 * weekly demand (104): rule A orders 50 times
\* a year, and the date is not the default one.
C5_Witness ==
    /\ yearly_ac_demand = 100
    /\ weekly_demand = 2
    /\ time_per_po = 5
    /\ start_shortage_date = Date(2027, 12, 31)
    /\ Len(combined_data) = 17
    /\ combined_data[1].POsPerYear = 50
    /\ combined_data[1].HoldingCost = "$50"
    /\ combined_data[1].BuyerCost = "$875"
    /\ combined_data[1].TotalCost = "$925"

-----------------------------------------------------------------------------
(* C6 as stated: the label is decided by the rule code through three       *)
(* disjoint sets that cover the catalog, so that no row carries the        *)
(* default label "High inventory".                                         *)
C6_NoRowIsHighInventory ==
    /\ CompletePass
    /\ \A i \in 1..Len(combined_data) :
        LET row == combined_data[i]
        IN  /\ row.Notes # "High inventory"
            /\ row.Rule \in {"B","C","F","G","H","I","J","K","L","M","N","O"}
                 => row.Notes = "Balanced"
            /\ row.Rule = "A" => row.Notes = "High PO load"
            /\ row.Rule \in {"P","Q"} => row.Notes = "No auto ordering (manual)"

(* C6 as amended: the label is decided by the rule code alone: B, C, F,    *)
(* G, H, I, J, K, L, M, N, O get "Balanced", A gets "High PO load", P and  *)
(* Q get "No auto ordering (manual)", and D and E, which are in none of    *)
(* the three sets, get the default label "High inventory".                 *)
C6_LabelsByRuleCode ==
    /\ CompletePass
    /\ \A i \in 1..Len(combined_data) :
        LET row == combined_data[i]
        IN  row.Notes =
              CASE row.Rule \in {"B","C","F","G","H","I","J","K","L","M","N","O"}
                     -> "Balanced"
                [] row.Rule = "A" -> "High PO load"
                [] row.Rule \in {"P","Q"} -> "No auto ordering (manual)"
                [] row.Rule \in {"D","E"} -> "High inventory"

\* Rows D and E with the default label, on edited widgets.
C6_Witness ==
    /\ ebq = 3
    /\ yearly_ac_demand = 1
    /\ Len(combined_data) = 17
    /\ combined_data[4].Rule = "D"
    /\ combined_data[4].Notes = "High inventory"
    /\ combined_data[5].Notes = "High inventory"
    /\ combined_data[1].Notes = "High PO load"
    /\ combined_data[2].Notes = "Balanced"

-----------------------------------------------------------------------------
-----------------------------------------------------------------------------
(* C9: in the baseline scenario (yearly demand 100, EBQ 10, PAN 10, fixed  *)
(* time 20, first shortage 2026-03-20, buffer 15, price 50, rate 35, 0.5 h *)
(* per PO) weekly demand is 2, rules A, B, G, O order 2, 10, 10, 10, and   *)
(* every rule with Q > 0 has first PO date 2026-03-05 and second PO date   *)
(* 2026-04-02.                                                             *)
Baseline ==
    /\ yearly_ac_demand = 100
    /\ ebq = 10
    /\ pan_qty = 10
    /\ fixed_time_days = 20
    /\ start_shortage_date = Date(2026, 3, 20)
    /\ time_per_po = 5
    /\ delivery_buffer = 15
    /\ part_price = 50
    /\ buyer_rate = 35

C9_BaselineScenario ==
    Baseline =>
        /\ CompletePass
        /\ weekly_demand = 2
        /\ rules["A"] = 2
        /\ rules["B"] = 10
        /\ rules["G"] = 10
        /\ rules["O"] = 10
        /\ combined_data[1].ExampleOrderQty = "2 pcs"
        /\ combined_data[2].ExampleOrderQty = "10 pcs"
        /\ combined_data[7].ExampleOrderQty = "10 pcs"
        /\ combined_data[15].ExampleOrderQty = "10 pcs"
        /\ \A i \in 1..Len(combined_data) :
              rules[combined_data[i].Rule] > 0 =>
                 combined_data[i].POSchedule
                   = "2026-03-05 → " \o combined_data[i].ExampleOrderQty \o "\n"
                     \o "2026-04-02 → " \o combined_data[i].ExampleOrderQty \o "\n"
                     \o "2026-04-30 → " \o combined_data[i].ExampleOrderQty

\* The baseline, evaluated.
C9_Witness ==
    /\ Baseline
    /\ Len(combined_data) = 17
    /\ combined_data[1].POSchedule
         = "2026-03-05 → 2 pcs\n2026-04-02 → 2 pcs\n2026-04-30 → 2 pcs"
    /\ combined_data[4].ExampleOrderQty = "102 pcs"

-----------------------------------------------------------------------------
(* C10: for W >= 0, EBQ >= 1, PAN >= 1 every lot-rounded quantity covers   *)
(* its synthetic shortage with less than one lot of excess: G and M are    *)
(* positive multiples of EBQ in [2W+1, 2W+1+EBQ); H and N positive         *)
(* multiples of PAN in [2W+1, 2W+1+PAN); O >= EBQ, O >= 2W+3, O - EBQ is   *)
(* a non-negative multiple of PAN, O = EBQ exactly when 2W+3 <= EBQ, and   *)
(* otherwise O < 2W+3+PAN.                                                 *)
C10_LotRoundingCoversShortage ==
    LET W   == weekly_demand
        EBQ == ebq
        PAN == pan_qty
        Covers(q, lot, need) ==
            /\ q > 0
            /\ q % lot = 0
            /\ need <= q
            /\ q < need + lot
        O   == rules["O"]
    IN  (W >= 0 /\ EBQ >= 1 /\ PAN >= 1 /\ raised = "") =>
          /\ Covers(rules["G"], EBQ, 2 * W + 1)
          /\ Covers(rules["M"], EBQ, 2 * W + 1)
          /\ Covers(rules["H"], PAN, 2 * W + 1)
          /\ Covers(rules["N"], PAN, 2 * W + 1)
          /\ O >= EBQ
          /\ O >= 2 * W + 3
          /\ (O - EBQ) >= 0
          /\ (O - EBQ) % PAN = 0
          /\ (O = EBQ) <=> (2 * W + 3 <= EBQ)
          /\ (2 * W + 3 > EBQ) => (O < 2 * W + 3 + PAN)

\* Lot sizes that do not divide the shortage: 5 is rounded up to 6, and rule
\* O's remainder 7 - 3 = 4 is rounded up to 6.
C10_Witness ==
    /\ weekly_demand = 2
    /\ ebq = 3
    /\ pan_qty = 3
    /\ rules["G"] = 6
    /\ rules["N"] = 6
    /\ rules["O"] = 9

====
